---- MODULE Spec2Model ----
(***************************************************************************)
(* Model of project1.py: the expression evaluator safe_eval, the           *)
(* calculator's button handler with its history list, and the unit         *)
(* converter tabs.                                                         *)
(*                                                                         *)
(* Text (the entry's expression, a history line) is a sequence of          *)
(* one-character strings.  Python floats are modelled as exact rationals   *)
(* n/d in lowest terms; only their printed form is cut to ReprDigits       *)
(* significant digits.  Results of transcendental math functions at        *)
(* arguments where they are not rational are opaque "sym" floats named by  *)
(* the call that produced them.                                            *)
(***************************************************************************)
EXTENDS Integers, Sequences, FiniteSets, TLC

\* ------------------------------------------------------------------------
\* Bounds of the model
\* ------------------------------------------------------------------------
\* longest expression the insert buttons build
MaxLen == 3
\* longest history the '=' button builds
MaxHist == 2
\* most pieces of the argument of a direct call of safe_eval
MaxPieces == 3
\* significant digits printed for a float whose expansion is longer
ReprDigits == 4

\* ------------------------------------------------------------------------
\* Character classes and text helpers
\* ------------------------------------------------------------------------
Digits == {"0", "1", "2", "3", "4", "5", "6", "7", "8", "9"}

Letters ==
  {"a", "b", "c", "d", "e", "f", "g", "h", "i", "j", "k", "l", "m", "n",
   "o", "p", "q", "r", "s", "t", "u", "v", "w", "x", "y", "z",
   "A", "B", "C", "D", "E", "F", "G", "H", "I", "J", "K", "L", "M", "N",
   "O", "P", "Q", "R", "S", "T", "U", "V", "W", "X", "Y", "Z", "_"}

\* [ \t] of the first percent pattern
Blank == {" ", "\t"}

\* \s of the second percent pattern, and what str.strip() removes
Space == {" ", "\t", "\n", "\r", "\f"}

At(s, i) == IF i >= 1 /\ i <= Len(s) THEN s[i] ELSE ""

RECURSIVE Cat(_)
Cat(s) == IF s = <<>> THEN "" ELSE Head(s) \o Cat(Tail(s))

RECURSIVE Flatten(_)
Flatten(ss) == IF ss = <<>> THEN <<>> ELSE Head(ss) \o Flatten(Tail(ss))

\* index just past the run of characters of class cls that starts at i
RECURSIVE RunEnd(_, _, _)
RunEnd(s, i, cls) ==
  IF i <= Len(s) /\ s[i] \in cls THEN RunEnd(s, i + 1, cls) ELSE i

\* ------------------------------------------------------------------------
\* safe_eval, lines 40-50: the text rewrites
\* ------------------------------------------------------------------------
\* str.replace with a one-character pattern
RECURSIVE replace(_, _, _)
replace(s, old, new) ==
  IF s = <<>> THEN <<>>
  ELSE (IF Head(s) = old THEN new ELSE <<Head(s)>>) \o replace(Tail(s), old, new)

ReplaceSymbols(s) ==
  replace(replace(replace(replace(s, "×", <<"*">>), "÷", <<"/">>),
                  "^", <<"*", "*">>), "π", <<"p", "i">>)

\* Group a, \d+(?:\.\d+)?, tried at position i: the index just past it,
\* or 0 when s[i] is no digit.  The match is greedy, and no shorter
\* alternative can succeed, because what follows a shorter one is a digit
\* or a dot and the pattern goes on with blanks or '%'.
NumberEnd(s, i) ==
  IF At(s, i) \notin Digits THEN 0
  ELSE LET j == RunEnd(s, i, Digits)
       IN IF At(s, j) = "." /\ At(s, j + 1) \in Digits
          THEN RunEnd(s, j + 1, Digits) ELSE j

\* first pattern at position i: the index just past the match, or 0
PercentOfEnd(s, i) ==
  LET j == NumberEnd(s, i)
      k == RunEnd(s, j, Blank)
      m == RunEnd(s, k + 1, Blank)
  IN IF j # 0 /\ At(s, k) = "%" /\ (At(s, m) \in Digits \/ At(s, m) = "(")
     THEN m ELSE 0

\* second pattern at position i: the index just past the match, or 0
PercentEnd(s, i) ==
  LET j == NumberEnd(s, i)
      k == RunEnd(s, j, Space)
  IN IF j # 0 /\ At(s, k) = "%" THEN k + 1 ELSE 0

\* re.sub of the first pattern, scanning from position i
RECURSIVE SubPercentOf(_, _)
SubPercentOf(s, i) ==
  IF i > Len(s) THEN <<>>
  ELSE LET m == PercentOfEnd(s, i)
       IN IF m # 0
          THEN <<"(">> \o SubSeq(s, i, NumberEnd(s, i) - 1)
                 \o <<"/", "1", "0", "0", ")", "*">> \o SubPercentOf(s, m)
          ELSE <<s[i]>> \o SubPercentOf(s, i + 1)

\* re.sub of the second pattern, scanning from position i
RECURSIVE SubPercent(_, _)
SubPercent(s, i) ==
  IF i > Len(s) THEN <<>>
  ELSE LET m == PercentEnd(s, i)
       IN IF m # 0
          THEN <<"(">> \o SubSeq(s, i, NumberEnd(s, i) - 1)
                 \o <<"/", "1", "0", "0", ")">> \o SubPercent(s, m)
          ELSE <<s[i]>> \o SubPercent(s, i + 1)

\* the expression text that reaches compile()
Normalize(s) == SubPercent(SubPercentOf(ReplaceSymbols(s), 1), 1)

\* ------------------------------------------------------------------------
\* Python values
\* ------------------------------------------------------------------------
Abs(n) == IF n < 0 THEN -n ELSE n

RECURSIVE Gcd(_, _)
Gcd(a, b) == IF b = 0 THEN a ELSE Gcd(b, a % b)

RECURSIVE Pow(_, _)
Pow(b, n) == IF n = 0 THEN 1 ELSE b * Pow(b, n - 1)

IntV(n) == [k |-> "int", n |-> n]

\* the float n/d, kept in lowest terms with d > 0
FloatV(n, d) ==
  LET g == Gcd(Abs(n), Abs(d))
      sg == IF d < 0 THEN -1 ELSE 1
  IN [k |-> "float", n |-> sg * (n \div g), d |-> sg * (d \div g)]

\* an opaque float: the result of a math function that is not rational
SymV(id) == [k |-> "sym", id |-> id]

\* a function of the math module
BuiltinV(id) == [k |-> "builtin", id |-> id]

\* the empty tuple, and the Ellipsis object of the literal '...'
TupleV == [k |-> "tuple"]
EllipsisV == [k |-> "ellipsis"]

\* True and False
BoolV(b) == [k |-> "bool", b |-> b]
\* a bool that the model does not compute: the order of an opaque float
\* and another number
TruthV(id) == [k |-> "truth", id |-> id]

IsNum(v) == v.k \in {"int", "float", "sym"}
IsRat(v) == v.k \in {"int", "float"}
Num(v) == v.n
Den(v) == IF v.k = "int" THEN 1 ELSE v.d

\* type(v).__name__, as the error messages print it
TypeName(v) ==
  CASE v.k = "int" -> "int"
    [] v.k \in {"float", "sym"} -> "float"
    [] v.k = "tuple" -> "tuple"
    [] v.k \in {"bool", "truth"} -> "bool"
    [] v.k = "ellipsis" -> "ellipsis"
    [] v.k = "builtin" -> "builtin_function_or_method"
    [] OTHER -> "function"

\* outcome of an evaluation step: a value, or a raised exception
Ok(v) == [ok |-> TRUE, v |-> v, exc |-> "", msg |-> ""]
Raise(exc, msg) == [ok |-> FALSE, v |-> TupleV, exc |-> exc, msg |-> msg]

\* the name a sym value gets from the operation that made it
NumId(v) ==
  CASE v.k = "int" -> ToString(v.n)
    [] v.k = "float" -> ToString(v.n) \o "/" \o ToString(v.d) \o "."
    [] OTHER -> v.id

\* ------------------------------------------------------------------------
\* compile(expr, '<string>', 'eval'): the tokens
\*
\* The part of Python's expression syntax that the modelled inputs can
\* spell: numbers, names, '...', the operators + - * / // % **, calls with
\* at most one positional argument, attribute access, parentheses, the
\* empty tuple and a lambda without parameters.
\* ------------------------------------------------------------------------
Keywords ==
  {"False", "None", "True", "and", "as", "assert", "async", "await",
   "break", "class", "continue", "def", "del", "elif", "else", "except",
   "finally", "for", "from", "global", "if", "import", "in", "is",
   "lambda", "nonlocal", "not", "or", "pass", "raise", "return", "try",
   "while", "with", "yield"}

OpChars == {"+", "-", "*", "/", "%", "(", ")", ":", ".", ",", "<", ">", "=", "!"}

DigitVal(c) ==
  CASE c = "0" -> 0 [] c = "1" -> 1 [] c = "2" -> 2 [] c = "3" -> 3
    [] c = "4" -> 4 [] c = "5" -> 5 [] c = "6" -> 6 [] c = "7" -> 7
    [] c = "8" -> 8 [] c = "9" -> 9

\* value of the digit string s[i .. j-1]
RECURSIVE DigitsVal(_, _, _)
DigitsVal(s, i, j) ==
  IF j <= i THEN 0 ELSE 10 * DigitsVal(s, i, j - 1) + DigitVal(s[j - 1])

Tok(t, str, v, nxt) == [ok |-> TRUE, t |-> t, s |-> str, v |-> v, nxt |-> nxt]
NoTok == [ok |-> FALSE, t |-> "", s |-> "", v |-> TupleV, nxt |-> 0]

\* a number literal starting at i: digits, fraction and exponent
NumberTok(s, i) ==
  LET a == RunEnd(s, i, Digits)
      dot == At(s, a) = "."
      b == IF dot THEN RunEnd(s, a + 1, Digits) ELSE a
      hasExp == At(s, b) \in {"e", "E"}
      c == IF hasExp /\ At(s, b + 1) \in {"+", "-"} THEN b + 2 ELSE b + 1
      e == IF hasExp THEN RunEnd(s, c, Digits) ELSE b
      x == IF hasExp
           THEN (IF At(s, b + 1) = "-" THEN -1 ELSE 1) * DigitsVal(s, c, e)
           ELSE 0
      fl == IF dot THEN b - (a + 1) ELSE 0
      mant == DigitsVal(s, i, a) * Pow(10, fl)
              + (IF dot THEN DigitsVal(s, a + 1, b) ELSE 0)
      isInt == ~dot /\ ~hasExp
  IN IF hasExp /\ e = c THEN NoTok
     ELSE IF At(s, e) \in Letters THEN NoTok
     ELSE IF isInt /\ a - i > 1 /\ s[i] = "0" /\ DigitsVal(s, i, a) # 0 THEN NoTok
     ELSE IF isInt THEN Tok("const", "", IntV(mant), e)
     ELSE IF x >= fl THEN Tok("const", "", FloatV(mant * Pow(10, x - fl), 1), e)
     ELSE Tok("const", "", FloatV(mant, Pow(10, fl - x)), e)

NameTok(s, i) ==
  LET j == RunEnd(s, i, Letters \cup Digits)
      id == Cat(SubSeq(s, i, j - 1))
  IN Tok(IF id \in Keywords THEN "kw" ELSE "name", id, TupleV, j)

OpTok(s, i) ==
  IF At(s, i) = "." /\ At(s, i + 1) = "." /\ At(s, i + 2) = "."
  THEN Tok("const", "", EllipsisV, i + 3)
  ELSE IF (At(s, i) = "*" /\ At(s, i + 1) = "*")
          \/ (At(s, i) = "/" /\ At(s, i + 1) = "/")
  THEN Tok("op", s[i] \o s[i], TupleV, i + 2)
  ELSE IF At(s, i) \in {"=", "!", "<", ">"} /\ At(s, i + 1) = "="
  THEN Tok("op", s[i] \o "=", TupleV, i + 2)
  ELSE Tok("op", s[i], TupleV, i + 1)

NextTok(s, i) ==
  IF s[i] \in Digits \/ (s[i] = "." /\ At(s, i + 1) \in Digits) THEN NumberTok(s, i)
  ELSE IF s[i] \in Letters THEN NameTok(s, i)
  ELSE IF s[i] \in OpChars THEN OpTok(s, i)
  ELSE NoTok

\* the tokens of s from position i on; ok is FALSE at a lexical error
RECURSIVE Lex(_, _)
Lex(s, i) ==
  IF i > Len(s) THEN [ok |-> TRUE, toks |-> <<>>]
  ELSE IF s[i] \in Blank THEN Lex(s, i + 1)
  ELSE LET tk == NextTok(s, i)
       IN IF ~tk.ok THEN [ok |-> FALSE, toks |-> <<>>]
          ELSE LET rest == Lex(s, tk.nxt)
               IN [ok |-> rest.ok,
                   toks |-> <<[t |-> tk.t, s |-> tk.s, v |-> tk.v]>> \o rest.toks]

\* a line that starts with a blank is an IndentationError
Tokenize(s) ==
  IF s # <<>> /\ s[1] \in Blank THEN [ok |-> FALSE, toks |-> <<>>] ELSE Lex(s, 1)

\* ------------------------------------------------------------------------
\* compile(expr, '<string>', 'eval'): the syntax tree
\* ------------------------------------------------------------------------
Const(v) == [k |-> "const", v |-> v]
Name(id) == [k |-> "name", id |-> id]
Un(op, a) == [k |-> "un", op |-> op, a |-> a]
Bin(op, a, b) == [k |-> "bin", op |-> op, a |-> a, b |-> b]
Call(f, args) == [k |-> "call", f |-> f, args |-> args]
Attr(a, id) == [k |-> "attr", a |-> a, id |-> id]
Lambda(body) == [k |-> "lambda", body |-> body]
\* a op b; chained says that a is the comparison before it in a chain
Compare(op, a, b, chained) ==
  [k |-> "cmp", op |-> op, a |-> a, b |-> b, chained |-> chained]

CompareOps == {"==", "!=", "<", ">", "<=", ">="}

Parsed(e, p) == [ok |-> TRUE, e |-> e, p |-> p]
NoParse == [ok |-> FALSE, e |-> Const(TupleV), p |-> 0]

IsOp(ts, p, ops) == p <= Len(ts) /\ ts[p].t = "op" /\ ts[p].s \in ops
IsTok(ts, p, t) == p <= Len(ts) /\ ts[p].t = t

\* Each step of the parser takes the result of the step before it: a tree
\* and the position after it, or NoParse.
Join(op, l, r) == IF l.ok /\ r.ok THEN Parsed(Bin(op, l.e, r.e), r.p) ELSE NoParse
Compared(op, l, r, chained) ==
  IF l.ok /\ r.ok THEN Parsed(Compare(op, l.e, r.e, chained), r.p) ELSE NoParse
Signed(op, f) == IF f.ok THEN Parsed(Un(op, f.e), f.p) ELSE NoParse
LambdaOf(b) == IF b.ok THEN Parsed(Lambda(b.e), b.p) ELSE NoParse
Closed(ts, a) == IF a.ok /\ IsOp(ts, a.p, {")"}) THEN Parsed(a.e, a.p + 1) ELSE NoParse
CallWith(ts, f, a) ==
  IF a.ok /\ IsOp(ts, a.p, {")"}) THEN Parsed(Call(f, <<a.e>>), a.p + 1) ELSE NoParse

RECURSIVE ParseExpr(_, _), CompareRest(_, _, _),
          ParseSum(_, _), SumRest(_, _), ParseTerm(_, _),
          TermRest(_, _), ParseFactor(_, _), ParsePower(_, _), PowerRest(_, _),
          ParsePrimary(_, _), Trailers(_, _), ParseAtom(_, _)

\* expression: lambdef | comparison; of the operators on truth values
\* (not, and, or, if) none is modelled
ParseExpr(ts, p) ==
  IF IsTok(ts, p, "kw") /\ ts[p].s \notin {"True", "False"}
  THEN IF ts[p].s = "lambda" /\ IsOp(ts, p + 1, {":"})
       THEN LambdaOf(ParseExpr(ts, p + 2))
       ELSE NoParse
  ELSE CompareRest(ts, ParseSum(ts, p), FALSE)

\* comparison: sum (('==' | '!=' | '<' | '>' | '<=' | '>=') sum)*
CompareRest(ts, l, chained) ==
  IF l.ok /\ IsOp(ts, l.p, CompareOps)
  THEN CompareRest(ts, Compared(ts[l.p].s, l, ParseSum(ts, l.p + 1), chained), TRUE)
  ELSE l

\* sum: term (('+' | '-') term)*
ParseSum(ts, p) == SumRest(ts, ParseTerm(ts, p))

SumRest(ts, l) ==
  IF l.ok /\ IsOp(ts, l.p, {"+", "-"})
  THEN SumRest(ts, Join(ts[l.p].s, l, ParseTerm(ts, l.p + 1)))
  ELSE l

\* term: factor (('*' | '/' | '//' | '%') factor)*
ParseTerm(ts, p) == TermRest(ts, ParseFactor(ts, p))

TermRest(ts, l) ==
  IF l.ok /\ IsOp(ts, l.p, {"*", "/", "//", "%"})
  THEN TermRest(ts, Join(ts[l.p].s, l, ParseFactor(ts, l.p + 1)))
  ELSE l

\* factor: ('+' | '-') factor | power
ParseFactor(ts, p) ==
  IF IsOp(ts, p, {"+", "-"}) THEN Signed(ts[p].s, ParseFactor(ts, p + 1))
  ELSE ParsePower(ts, p)

\* power: primary ['**' factor]
ParsePower(ts, p) == PowerRest(ts, ParsePrimary(ts, p))

PowerRest(ts, a) ==
  IF a.ok /\ IsOp(ts, a.p, {"**"}) THEN Join("**", a, ParseFactor(ts, a.p + 1)) ELSE a

\* primary: atom ('(' [expression] ')' | '.' NAME)*
ParsePrimary(ts, p) == Trailers(ts, ParseAtom(ts, p))

Trailers(ts, a) ==
  IF a.ok /\ IsOp(ts, a.p, {"("})
  THEN IF IsOp(ts, a.p + 1, {")"}) THEN Trailers(ts, Parsed(Call(a.e, <<>>), a.p + 2))
       ELSE Trailers(ts, CallWith(ts, a.e, ParseExpr(ts, a.p + 1)))
  ELSE IF a.ok /\ IsOp(ts, a.p, {"."})
  THEN IF IsTok(ts, a.p + 1, "name")
       THEN Trailers(ts, Parsed(Attr(a.e, ts[a.p + 1].s), a.p + 2))
       ELSE NoParse
  ELSE a

\* atom: NUMBER | '...' | 'True' | 'False' | NAME | '(' ')' | '(' expression ')'
ParseAtom(ts, p) ==
  IF IsTok(ts, p, "const") THEN Parsed(Const(ts[p].v), p + 1)
  ELSE IF IsTok(ts, p, "kw") /\ ts[p].s \in {"True", "False"}
  THEN Parsed(Const(BoolV(ts[p].s = "True")), p + 1)
  ELSE IF IsTok(ts, p, "name") THEN Parsed(Name(ts[p].s), p + 1)
  ELSE IF IsOp(ts, p, {"("})
  THEN IF IsOp(ts, p + 1, {")"}) THEN Parsed(Const(TupleV), p + 2)
       ELSE Closed(ts, ParseExpr(ts, p + 1))
  ELSE NoParse

\* the whole text is one expression
Whole(tk, pr) ==
  IF tk.ok /\ tk.toks # <<>> /\ pr.ok /\ pr.p = Len(tk.toks) + 1
  THEN [ok |-> TRUE, e |-> pr.e]
  ELSE [ok |-> FALSE, e |-> Const(TupleV)]

CodeOf(tk) == Whole(tk, ParseExpr(tk.toks, 1))

\* the code object of the text, or a SyntaxError
compile(s) == CodeOf(Tokenize(s))

\* q without the names that p already holds, order kept
RECURSIVE Fresh(_, _)
Fresh(p, q) ==
  IF q = <<>> THEN <<>>
  ELSE IF \E i \in 1..Len(p) : p[i] = Head(q) THEN Fresh(p, Tail(q))
  ELSE <<Head(q)>> \o Fresh(p \o <<Head(q)>>, Tail(q))

Union(p, q) == p \o Fresh(p, q)

\* code.co_names: the names the code object itself loads, in the order of
\* their first use.  The body of a lambda is a code object of its own,
\* kept among the constants, and its names are not listed.
RECURSIVE co_names(_)
co_names(e) ==
  CASE e.k = "name" -> <<e.id>>
    [] e.k = "un" -> co_names(e.a)
    [] e.k \in {"bin", "cmp"} -> Union(co_names(e.a), co_names(e.b))
    [] e.k = "call" ->
         IF e.args = <<>> THEN co_names(e.f)
         ELSE Union(co_names(e.f), co_names(e.args[1]))
    [] e.k = "attr" -> Union(co_names(e.a), <<e.id>>)
    [] OTHER -> <<>>

\* ------------------------------------------------------------------------
\* Python arithmetic
\* ------------------------------------------------------------------------
IsZero(v) == IsRat(v) /\ v.n = 0
IsOne(v) == IsRat(v) /\ v.n = 1 /\ Den(v) = 1
BothInt(a, b) == a.k = "int" /\ b.k = "int"

\* floor of the rational p/q
Floor(p, q) == IF q > 0 THEN p \div q ELSE (-p) \div (-q)

\* int if both operands are ints, float otherwise
Mixed(a, b, n, d) == IF BothInt(a, b) THEN IntV(n \div d) ELSE FloatV(n, d)

ZeroDiv(a, b, op) ==
  Raise("ZeroDivisionError",
        IF BothInt(a, b)
        THEN (IF op = "/" THEN "division by zero"
              ELSE "integer division or modulo by zero")
        ELSE (IF op = "/" THEN "float division by zero"
              ELSE IF op = "//" THEN "float floor division by zero"
              ELSE "float modulo"))

\* a ** b for a rational a and an int b
RatPow(a, b) ==
  IF b.n >= 0
  THEN Ok(Mixed(a, b, Pow(a.n, b.n), Pow(Den(a), b.n)))
  ELSE IF a.n = 0
  THEN Raise("ZeroDivisionError", "0.0 cannot be raised to a negative power")
  ELSE Ok(FloatV(Pow(Den(a), -b.n), Pow(a.n, -b.n)))

\* the operators on two rationals
RatBin(op, a, b) ==
  LET q == Floor(a.n * Den(b), Den(a) * b.n)
  IN CASE op = "+" -> Ok(Mixed(a, b, a.n * Den(b) + b.n * Den(a), Den(a) * Den(b)))
       [] op = "-" -> Ok(Mixed(a, b, a.n * Den(b) - b.n * Den(a), Den(a) * Den(b)))
       [] op = "*" -> Ok(Mixed(a, b, a.n * b.n, Den(a) * Den(b)))
       [] op \in {"/", "//", "%"} /\ b.n = 0 -> ZeroDiv(a, b, op)
       [] op = "/" -> Ok(FloatV(a.n * Den(b), Den(a) * b.n))
       [] op = "//" -> Ok(Mixed(a, b, q, 1))
       [] op = "%" ->
            Ok(Mixed(a, b, a.n * Den(b) - q * b.n * Den(a), Den(a) * Den(b)))
       [] op = "**" /\ Den(b) = 1 -> RatPow(a, b)
       [] OTHER -> Ok(SymV("(" \o NumId(a) \o op \o NumId(b) \o ")"))

\* the operators when an operand is an opaque float
SymBin(op, a, b) ==
  CASE op \in {"/", "//", "%"} /\ IsZero(b) -> ZeroDiv(a, b, op)
    [] op \in {"*", "/", "//", "%"} /\ IsZero(a) -> Ok(FloatV(0, 1))
    [] op = "*" /\ IsZero(b) -> Ok(FloatV(0, 1))
    [] op \in {"+", "-"} /\ IsZero(b) -> Ok(a)
    [] op = "+" /\ IsZero(a) -> Ok(b)
    [] op \in {"*", "/", "**"} /\ IsOne(b) -> Ok(a)
    [] op = "*" /\ IsOne(a) -> Ok(b)
    [] op = "-" /\ a = b -> Ok(FloatV(0, 1))
    [] op \in {"/", "//"} /\ a = b -> Ok(FloatV(1, 1))
    [] op = "%" /\ a = b -> Ok(FloatV(0, 1))
    [] OTHER -> Ok(SymV("(" \o NumId(a) \o op \o NumId(b) \o ")"))

Unsupported(op, a, b) ==
  Raise("TypeError", "unsupported operand type(s) for " \o op \o ": '"
                     \o TypeName(a) \o "' and '" \o TypeName(b) \o "'")

\* a bool is an int in arithmetic (an opaque one an opaque number)
AsInt(v) ==
  CASE v.k = "bool" -> IntV(IF v.b THEN 1 ELSE 0)
    [] v.k = "truth" -> SymV(v.id)
    [] OTHER -> v

\* a op b of a comparison.  Numbers are compared by value, and the order
\* of an opaque float and a different number is opaque, except that nan is
\* only unequal to every number; other values are equal when they are the
\* same object (two lambdas never are) and are not ordered.
Ordered(op, a, b) ==
  CASE op = "==" -> a.n * Den(b) = b.n * Den(a)
    [] op = "!=" -> a.n * Den(b) # b.n * Den(a)
    [] op = "<" -> a.n * Den(b) < b.n * Den(a)
    [] op = ">" -> a.n * Den(b) > b.n * Den(a)
    [] op = "<=" -> a.n * Den(b) <= b.n * Den(a)
    [] op = ">=" -> a.n * Den(b) >= b.n * Den(a)

Same(a, b) == a = b /\ a # SymV("nan") /\ a.k # "lambda"

CompareOp(op, a, b) ==
  IF IsRat(a) /\ IsRat(b) THEN Ok(BoolV(Ordered(op, a, b)))
  ELSE IF op \in {"==", "!="} /\ (~IsNum(a) \/ ~IsNum(b) \/ a = b \/ SymV("nan") \in {a, b})
  THEN Ok(BoolV(Same(a, b) <=> op = "=="))
  ELSE IF IsNum(a) /\ IsNum(b)
  THEN IF a = b \/ SymV("nan") \in {a, b}
       THEN Ok(BoolV(Same(a, b) /\ op \in {"<=", ">="}))
       ELSE Ok(TruthV("(" \o NumId(a) \o op \o NumId(b) \o ")"))
  ELSE IF a.k = "tuple" /\ b.k = "tuple" THEN Ok(BoolV(op \in {"<=", ">="}))
  ELSE Raise("TypeError", "'" \o op \o "' not supported between instances of '"
                          \o TypeName(a) \o "' and '" \o TypeName(b) \o "'")

BinOp(op, a, b) ==
  IF IsRat(a) /\ IsRat(b) THEN RatBin(op, a, b)
  ELSE IF IsNum(a) /\ IsNum(b) THEN SymBin(op, a, b)
  ELSE IF op = "+" /\ a.k = "tuple" /\ b.k = "tuple" THEN Ok(TupleV)
  ELSE IF op = "*" /\ {a.k, b.k} = {"tuple", "int"} THEN Ok(TupleV)
  ELSE Unsupported(op, a, b)

UnOp(op, a) ==
  IF ~IsNum(a)
  THEN Raise("TypeError", "bad operand type for unary " \o op \o ": '"
                          \o TypeName(a) \o "'")
  ELSE IF op = "+" THEN Ok(a)
  ELSE IF a.k = "int" THEN Ok(IntV(-a.n))
  ELSE IF a.k = "float" THEN Ok(FloatV(-a.n, a.d))
  ELSE Ok(SymV("(-" \o a.id \o ")"))

\* ------------------------------------------------------------------------
\* The math module
\* ------------------------------------------------------------------------
\* dir(math) without the dunder names (CPython 3.11)
MathConstants == {"e", "inf", "nan", "pi", "tau"}

MathFunctions ==
  {"acos", "acosh", "asin", "asinh", "atan", "atan2", "atanh", "cbrt",
   "ceil", "comb", "copysign", "cos", "cosh", "degrees", "dist", "erf",
   "erfc", "exp", "exp2", "expm1", "fabs", "factorial", "floor", "fmod",
   "frexp", "fsum", "gamma", "gcd", "hypot", "isclose", "isfinite",
   "isinf", "isnan", "isqrt", "lcm", "ldexp", "lgamma", "log", "log10",
   "log1p", "log2", "modf", "nextafter", "perm", "pow", "prod", "radians",
   "remainder", "sin", "sinh", "sqrt", "tan", "tanh", "trunc", "ulp"}

\* getattr(math, k)
math(k) == IF k \in MathConstants THEN SymV(k) ELSE BuiltinV(k)

RECURSIVE Factorial(_)
Factorial(n) == IF n <= 1 THEN 1 ELSE n * Factorial(n - 1)

\* the integer square root of n, searched between lo and hi
RECURSIVE ISqrt(_, _, _)
ISqrt(n, lo, hi) ==
  IF lo >= hi THEN lo
  ELSE LET mid == (lo + hi + 1) \div 2
       IN IF mid <= n \div mid THEN ISqrt(n, mid, hi) ELSE ISqrt(n, lo, mid - 1)

Root(n) == ISqrt(n, 0, n)
IsSquare(n) == Root(n) * Root(n) = n

\* k with n = 10^k, or -1
RECURSIVE Log10Of(_)
Log10Of(n) ==
  IF n = 1 THEN 0
  ELSE IF n % 10 # 0 THEN -1
  ELSE LET k == Log10Of(n \div 10) IN IF k < 0 THEN -1 ELSE k + 1

\* the argument as the double the function receives
ArgId(x) == IF IsRat(x) THEN ToString(x.n) \o "/" \o ToString(Den(x)) ELSE x.id

Opaque(id, x) == Ok(SymV(id \o "(" \o ArgId(x) \o ")"))

DomainError == Raise("ValueError", "math domain error")

\* results that are exact although the argument is not rational
ExactPoints ==
  {<<"sin", "radians(90/1)", 1>>, <<"cos", "radians(180/1)", -1>>,
   <<"cos", "radians(360/1)", 1>>, <<"degrees", "asin(1/1)", 90>>,
   <<"degrees", "acos(0/1)", 90>>, <<"degrees", "atan(1/1)", 45>>,
   <<"degrees", "acos(-1/1)", 180>>}

\* a one-argument math function at the number x.  Functions that no
\* modelled input can spell have no case here.
MathFn(id, x) ==
  IF x.k = "sym"
  THEN IF id = "factorial"
       THEN Raise("TypeError", "'float' object cannot be interpreted as an integer")
       ELSE IF \E pt \in ExactPoints : pt[1] = id /\ pt[2] = x.id
       THEN Ok(FloatV((CHOOSE pt \in ExactPoints : pt[1] = id /\ pt[2] = x.id)[3], 1))
       ELSE Opaque(id, x)
  ELSE CASE id \in {"sin", "tan", "atan", "radians", "degrees"} ->
              IF x.n = 0 THEN Ok(FloatV(0, 1)) ELSE Opaque(id, x)
         [] id = "cos" -> IF x.n = 0 THEN Ok(FloatV(1, 1)) ELSE Opaque(id, x)
         [] id = "asin" ->
              IF Abs(x.n) > Den(x) THEN DomainError
              ELSE IF x.n = 0 THEN Ok(FloatV(0, 1)) ELSE Opaque(id, x)
         [] id = "acos" ->
              IF Abs(x.n) > Den(x) THEN DomainError
              ELSE IF x.n = Den(x) THEN Ok(FloatV(0, 1)) ELSE Opaque(id, x)
         [] id = "sqrt" ->
              IF x.n < 0 THEN DomainError
              ELSE IF IsSquare(x.n) /\ IsSquare(Den(x))
              THEN Ok(FloatV(Root(x.n), Root(Den(x))))
              ELSE Opaque(id, x)
         [] id = "log" ->
              IF x.n <= 0 THEN DomainError
              ELSE IF IsOne(x) THEN Ok(FloatV(0, 1)) ELSE Opaque(id, x)
         [] id = "log10" ->
              IF x.n <= 0 THEN DomainError
              ELSE IF Den(x) = 1 /\ Log10Of(x.n) >= 0 THEN Ok(FloatV(Log10Of(x.n), 1))
              ELSE IF x.n = 1 /\ Log10Of(Den(x)) >= 0 THEN Ok(FloatV(-Log10Of(Den(x)), 1))
              ELSE Opaque(id, x)
         [] id = "factorial" ->
              IF x.k # "int"
              THEN Raise("TypeError", "'float' object cannot be interpreted as an integer")
              ELSE IF x.n < 0
              THEN Raise("ValueError", "factorial() not defined for negative values")
              ELSE Ok(IntV(Factorial(x.n)))
         [] id = "gamma" ->
              IF Den(x) = 1 /\ x.n <= 0 THEN DomainError
              ELSE IF Den(x) = 1 THEN Ok(FloatV(Factorial(x.n - 1), 1))
              ELSE Opaque(id, x)

\* calling a function of the math module
MathCall(id, args) ==
  IF Len(args) # 1
  THEN Raise("TypeError", "math." \o id \o "() takes exactly one argument ("
                          \o ToString(Len(args)) \o " given)")
  ELSE IF ~IsNum(args[1])
  THEN Raise("TypeError",
             IF id = "factorial"
             THEN "'" \o TypeName(args[1]) \o "' object cannot be interpreted as an integer"
             ELSE "must be real number, not " \o TypeName(args[1]))
  ELSE MathFn(id, args[1])

\* ------------------------------------------------------------------------
\* ALLOWED_NAMES, lines 21-33
\* ------------------------------------------------------------------------
\* dict.update: the bindings of d overridden by those of u
update(d, u) ==
  [k \in DOMAIN d \cup DOMAIN u |-> IF k \in DOMAIN u THEN u[k] ELSE d[k]]

Aliases ==
  [k \in {"pi", "e", "sqrt", "ln", "log", "fact", "asin", "acos", "atan", "gamma"} |->
     CASE k = "ln" -> math("log")
       [] k = "log" -> math("log10")
       [] k = "fact" -> math("factorial")
       [] OTHER -> math(k)]

\* the module-level dict as the import leaves it
InitialNames ==
  update([k \in MathConstants \cup MathFunctions |-> math(k)], Aliases)

\* ------------------------------------------------------------------------
\* safe_eval, lines 52-71: the namespace of one call
\* ------------------------------------------------------------------------
\* the lambdas make_forward and make_inverse return; the branch on
\* angle_mode is taken when the lambda is made
make_forward(fn, angle_mode) ==
  [k |-> "wrapper", fn |-> fn,
   conv |-> IF angle_mode = "deg" THEN "radians_in" ELSE "none"]

make_inverse(fn, angle_mode) ==
  [k |-> "wrapper", fn |-> fn,
   conv |-> IF angle_mode = "deg" THEN "degrees_out" ELSE "none"]

\* TrigOverrides, were the natural logarithm wrapped like a trig function
TrigOverridesWide(angle_mode) ==
  [k \in {"sin", "cos", "tan", "asin", "acos", "atan", "ln"} |->
     IF k \in {"sin", "cos", "tan"} THEN make_forward(k, angle_mode)
     ELSE IF k = "ln" THEN make_forward("log", angle_mode)
     ELSE make_inverse(k, angle_mode)]

TrigOverrides(angle_mode) ==
  [k \in {"sin", "cos", "tan", "asin", "acos", "atan"} |->
     IF k \in {"sin", "cos", "tan"} THEN make_forward(k, angle_mode)
     ELSE make_inverse(k, angle_mode)]

\* copy, were local_names = ALLOWED_NAMES written instead: one dict
copy_by_reference(allowed) ==
  [ALLOWED_NAMES |-> allowed, local_names |-> allowed, ref |-> "ALLOWED_NAMES"]

\* The dicts of a call: ALLOWED_NAMES.copy() makes a second dict, and
\* local_names refers to it.
copy(allowed) == [ALLOWED_NAMES |-> allowed, local_names |-> allowed, ref |-> "local_names"]

\* local_names[k] = v for the six trig names, on the dict local_names
\* refers to
Bind(angle_mode, allowed) ==
  LET h == copy(allowed)
  IN [h EXCEPT ![h.ref] = update(h[h.ref], TrigOverrides(angle_mode))]

local_names(angle_mode, allowed) ==
  LET h == Bind(angle_mode, allowed) IN h[h.ref]

safe_builtin_names == {"abs", "round"}

\* ------------------------------------------------------------------------
\* eval(code, {"__builtins__": {}}, local_names)
\* ------------------------------------------------------------------------
NotCallable(v) ==
  Raise("TypeError", "'" \o TypeName(v) \o "' object is not callable")

\* obj.id; of the attributes of the modelled values only 'real' is modelled
GetAttr(v, id) ==
  IF id = "real" /\ IsNum(v) THEN Ok(v)
  ELSE Raise("AttributeError", "'" \o TypeName(v) \o "' object has no attribute '"
                               \o id \o "'")

\* lambda x: fn(math.radians(x)), lambda x: math.degrees(fn(x)), lambda x: fn(x)
WrapperCall(w, args) ==
  IF Len(args) # 1
  THEN Raise("TypeError", "<lambda>() missing 1 required positional argument: 'x'")
  ELSE IF w.conv = "radians_in"
  THEN LET r == MathCall("radians", args)
       IN IF r.ok THEN MathCall(w.fn, <<r.v>>) ELSE r
  ELSE IF w.conv = "degrees_out"
  THEN LET r == MathCall(w.fn, args)
       IN IF r.ok THEN MathCall("degrees", <<r.v>>) ELSE r
  ELSE MathCall(w.fn, args)

RECURSIVE Eval(_, _, _), EvalCall(_, _, _), EvalCompare(_, _, _)

\* The value of the tree e.  At the top level a name is looked up in
\* names (LOAD_NAME: locals, then the globals and builtins, which hold
\* nothing); inside a lambda body only in the globals and builtins
\* (LOAD_GLOBAL), so every name fails there.
Eval(e, names, top) ==
  CASE e.k = "const" -> Ok(e.v)
    [] e.k = "name" ->
         IF top /\ e.id \in DOMAIN names THEN Ok(names[e.id])
         ELSE Raise("NameError", "name '" \o e.id \o "' is not defined")
    [] e.k = "lambda" -> Ok([k |-> "lambda", body |-> e.body])
    [] e.k = "un" ->
         LET a == Eval(e.a, names, top)
         IN IF a.ok THEN UnOp(e.op, AsInt(a.v)) ELSE a
    [] e.k = "bin" ->
         LET a == Eval(e.a, names, top)
         IN IF ~a.ok THEN a
            ELSE LET b == Eval(e.b, names, top)
                 IN IF b.ok THEN BinOp(e.op, AsInt(a.v), AsInt(b.v)) ELSE b
    [] e.k = "attr" ->
         LET a == Eval(e.a, names, top) IN IF a.ok THEN GetAttr(a.v, e.id) ELSE a
    [] e.k = "call" -> EvalCall(e, names, top)
    [] e.k = "cmp" -> EvalCompare(e, names, top)

\* a comparison; in a chain the one before it decides when it is false,
\* and its right operand is the left operand here (after an opaque
\* comparison the chain is taken to go on, and is opaque unless it ends
\* false)
EvalCompare(e, names, top) ==
  LET r == Eval(e.a, names, top)
  IN IF ~r.ok \/ (e.chained /\ r.v = BoolV(FALSE)) THEN r
     ELSE LET a == IF e.chained THEN Eval(e.a.b, names, top) ELSE r
              b == Eval(e.b, names, top)
              c == IF b.ok THEN CompareOp(e.op, AsInt(a.v), AsInt(b.v)) ELSE b
          IN IF c.ok /\ e.chained /\ r.v.k = "truth" /\ c.v # BoolV(FALSE)
             THEN Ok(TruthV("(" \o r.v.id \o " and "
                            \o (IF c.v.k = "truth" THEN c.v.id ELSE "True") \o ")"))
             ELSE c

EvalCall(e, names, top) ==
  LET f == Eval(e.f, names, top)
  IN IF ~f.ok THEN f
     ELSE LET a == IF e.args = <<>> THEN Ok(TupleV) ELSE Eval(e.args[1], names, top)
              args == IF e.args = <<>> THEN <<>> ELSE <<AsInt(a.v)>>
          IN IF ~a.ok THEN a
             ELSE CASE f.v.k = "builtin" -> MathCall(f.v.id, args)
                    [] f.v.k = "wrapper" -> WrapperCall(f.v, args)
                    [] f.v.k = "lambda" ->
                         IF args = <<>> THEN Eval(f.v.body, names, FALSE)
                         ELSE Raise("TypeError",
                                    "<lambda>() takes 0 positional arguments but 1 was given")
                    [] OTHER -> NotCallable(f.v)

\* ------------------------------------------------------------------------
\* safe_eval, lines 73-82
\* ------------------------------------------------------------------------
\* the first name of co_names that the loop of lines 77-79 rejects
RECURSIVE FirstRejected(_, _)
FirstRejected(names, allowed) ==
  IF names = <<>> THEN ""
  ELSE IF Head(names) \notin allowed THEN Head(names)
  ELSE FirstRejected(Tail(names), allowed)

\* What the call returns or raises; stage tells how far it got.
Outcome(r, stage) == [ok |-> r.ok, v |-> r.v, exc |-> r.exc, msg |-> r.msg, stage |-> stage]

\* lines 75-82, with the code object and the namespace of the call
Run(code, names) ==
  LET bad == FirstRejected(co_names(code.e), DOMAIN names \cup safe_builtin_names)
  IN IF ~code.ok THEN Outcome(Raise("SyntaxError", "invalid syntax"), "compile")
     ELSE IF bad # ""
     THEN Outcome(Raise("NameError", "Use of '" \o bad \o "' not allowed"), "validate")
     ELSE Outcome(Eval(code.e, names, TRUE), "eval")

safe_eval(expr, angle_mode, allowed) ==
  Run(compile(Normalize(expr)), local_names(angle_mode, allowed))

\* ------------------------------------------------------------------------
\* str(result)
\* ------------------------------------------------------------------------
Chars(str) ==
  ("ln" :> <<"l", "n">> @@
   "fact" :> <<"f", "a", "c", "t">> @@
   "pi" :> <<"p", "i">> @@
   "acos" :> <<"a", "c", "o", "s">> @@
   "acosh" :> <<"a", "c", "o", "s", "h">> @@
   "asin" :> <<"a", "s", "i", "n">> @@
   "asinh" :> <<"a", "s", "i", "n", "h">> @@
   "atan" :> <<"a", "t", "a", "n">> @@
   "atan2" :> <<"a", "t", "a", "n", "2">> @@
   "atanh" :> <<"a", "t", "a", "n", "h">> @@
   "cbrt" :> <<"c", "b", "r", "t">> @@
   "ceil" :> <<"c", "e", "i", "l">> @@
   "comb" :> <<"c", "o", "m", "b">> @@
   "copysign" :> <<"c", "o", "p", "y", "s", "i", "g", "n">> @@
   "cos" :> <<"c", "o", "s">> @@
   "cosh" :> <<"c", "o", "s", "h">> @@
   "degrees" :> <<"d", "e", "g", "r", "e", "e", "s">> @@
   "dist" :> <<"d", "i", "s", "t">> @@
   "erf" :> <<"e", "r", "f">> @@
   "erfc" :> <<"e", "r", "f", "c">> @@
   "exp" :> <<"e", "x", "p">> @@
   "exp2" :> <<"e", "x", "p", "2">> @@
   "expm1" :> <<"e", "x", "p", "m", "1">> @@
   "fabs" :> <<"f", "a", "b", "s">> @@
   "factorial" :> <<"f", "a", "c", "t", "o", "r", "i", "a", "l">> @@
   "floor" :> <<"f", "l", "o", "o", "r">> @@
   "fmod" :> <<"f", "m", "o", "d">> @@
   "frexp" :> <<"f", "r", "e", "x", "p">> @@
   "fsum" :> <<"f", "s", "u", "m">> @@
   "gamma" :> <<"g", "a", "m", "m", "a">> @@
   "gcd" :> <<"g", "c", "d">> @@
   "hypot" :> <<"h", "y", "p", "o", "t">> @@
   "isclose" :> <<"i", "s", "c", "l", "o", "s", "e">> @@
   "isfinite" :> <<"i", "s", "f", "i", "n", "i", "t", "e">> @@
   "isinf" :> <<"i", "s", "i", "n", "f">> @@
   "isnan" :> <<"i", "s", "n", "a", "n">> @@
   "isqrt" :> <<"i", "s", "q", "r", "t">> @@
   "lcm" :> <<"l", "c", "m">> @@
   "ldexp" :> <<"l", "d", "e", "x", "p">> @@
   "lgamma" :> <<"l", "g", "a", "m", "m", "a">> @@
   "log" :> <<"l", "o", "g">> @@
   "log10" :> <<"l", "o", "g", "1", "0">> @@
   "log1p" :> <<"l", "o", "g", "1", "p">> @@
   "log2" :> <<"l", "o", "g", "2">> @@
   "modf" :> <<"m", "o", "d", "f">> @@
   "nextafter" :> <<"n", "e", "x", "t", "a", "f", "t", "e", "r">> @@
   "perm" :> <<"p", "e", "r", "m">> @@
   "pow" :> <<"p", "o", "w">> @@
   "prod" :> <<"p", "r", "o", "d">> @@
   "radians" :> <<"r", "a", "d", "i", "a", "n", "s">> @@
   "remainder" :> <<"r", "e", "m", "a", "i", "n", "d", "e", "r">> @@
   "sin" :> <<"s", "i", "n">> @@
   "sinh" :> <<"s", "i", "n", "h">> @@
   "sqrt" :> <<"s", "q", "r", "t">> @@
   "tan" :> <<"t", "a", "n">> @@
   "tanh" :> <<"t", "a", "n", "h">> @@
   "trunc" :> <<"t", "r", "u", "n", "c">> @@
   "ulp" :> <<"u", "l", "p">>)[str]

DigitChar(d) == ToString(d)

\* the decimal digits of n >= 0, as numbers
RECURSIVE DigitsOf(_)
DigitsOf(n) == IF n < 10 THEN <<n>> ELSE DigitsOf(n \div 10) \o <<n % 10>>

ToChars(ds) == [i \in 1..Len(ds) |-> DigitChar(ds[i])]

Zeros(n) == [i \in 1..n |-> "0"]

\* the next count digits of r/d, 0 <= r < d, after the decimal point
RECURSIVE FracDigits(_, _, _)
FracDigits(r, d, count) ==
  IF count <= 0 THEN <<>>
  ELSE <<(r * 10) \div d>> \o FracDigits((r * 10) % d, d, count - 1)

\* what is left of r/d after count digits
RECURSIVE FracRest(_, _, _)
FracRest(r, d, count) == IF count <= 0 THEN r ELSE FracRest((r * 10) % d, d, count - 1)

\* zeros between the decimal point and the first digit of r/d, 0 < r < d
RECURSIVE LeadZeros(_, _)
LeadZeros(r, d) == IF r * 10 >= d THEN 0 ELSE 1 + LeadZeros(r * 10, d)

RECURSIVE ValueOf(_)
ValueOf(ds) == IF ds = <<>> THEN 0 ELSE 10 * ValueOf(SubSeq(ds, 1, Len(ds) - 1)) + ds[Len(ds)]

RECURSIVE StripZeros(_)
StripZeros(ds) ==
  IF Len(ds) > 1 /\ ds[Len(ds)] = 0 THEN StripZeros(SubSeq(ds, 1, Len(ds) - 1)) ELSE ds

\* The digits of n/d > 0 rounded to ReprDigits significant digits, and the
\* position of the decimal point: n/d = 0.ds * 10^pt.
Significant(n, d) ==
  LET ip == n \div d
      r0 == n % d
      ids == IF ip = 0 THEN <<>> ELSE DigitsOf(ip)
      z == IF ip = 0 THEN LeadZeros(r0, d) ELSE 0
      r == FracRest(r0, d, z)
      want == ReprDigits + 1 - Len(ids)
      all == ids \o FracDigits(r, d, want)
      rest == FracRest(r, d, want)
      m == ValueOf(SubSeq(all, 1, ReprDigits))
      g == all[ReprDigits + 1]
      sticky == rest # 0 \/ \E i \in (ReprDigits + 2)..Len(all) : all[i] # 0
      up == g > 5 \/ (g = 5 /\ (sticky \/ m % 2 = 1))
      m2 == IF up THEN m + 1 ELSE m
      pt == (IF ip = 0 THEN -z ELSE Len(ids))
  IN IF m2 = Pow(10, ReprDigits)
     THEN [ds |-> <<1>>, pt |-> pt + 1]
     ELSE [ds |-> StripZeros(DigitsOf(m2)), pt |-> pt]

\* float.__repr__ of the positive float n/d
FloatRepr(n, d) ==
  LET sg == Significant(n, d)
      ds == ToChars(sg.ds)
      pt == sg.pt
      L == Len(ds)
      x == Abs(pt - 1)
  IN IF pt > -4 /\ pt <= 16
     THEN IF pt <= 0 THEN <<"0", ".">> \o Zeros(-pt) \o ds
          ELSE IF pt >= L THEN ds \o Zeros(pt - L) \o <<".", "0">>
          ELSE SubSeq(ds, 1, pt) \o <<".">> \o SubSeq(ds, pt + 1, L)
     ELSE <<ds[1]>> \o (IF L > 1 THEN <<".">> \o SubSeq(ds, 2, L) ELSE <<>>)
          \o <<"e", IF pt - 1 < 0 THEN "-" ELSE "+">>
          \o (IF x < 10 THEN <<"0">> ELSE <<>>) \o ToChars(DigitsOf(x))

Sign(n) == IF n < 0 THEN <<"-">> ELSE <<>>

\* math.e is 2.718281828459045: its first nine digits
EulerDigits == 271828183

\* str(v).  The digits of an opaque float other than math.e and the address
\* in the repr of a lambda are one element of the text each.
Str(v) ==
  CASE v.k = "int" -> Sign(v.n) \o ToChars(DigitsOf(Abs(v.n)))
    [] v.k = "float" ->
         IF v.n = 0 THEN <<"0", ".", "0">> ELSE Sign(v.n) \o FloatRepr(Abs(v.n), v.d)
    [] v.k = "sym" ->
         IF v.id = "e" THEN FloatRepr(EulerDigits, Pow(10, 8)) ELSE <<v.id>>
    [] v.k = "tuple" -> <<"(", ")">>
    [] v.k = "truth" -> <<v.id>>
    [] v.k = "bool" ->
         IF v.b THEN <<"T", "r", "u", "e">> ELSE <<"F", "a", "l", "s", "e">>
    [] v.k = "ellipsis" -> <<"E", "l", "l", "i", "p", "s", "i", "s">>
    [] v.k = "builtin" ->
         <<"<", "b", "u", "i", "l", "t", "-", "i", "n", " ",
           "f", "u", "n", "c", "t", "i", "o", "n", " ">> \o Chars(v.id) \o <<">">>
    [] v.k \in {"wrapper", "lambda"} ->
         <<"<", "f", "u", "n", "c", "t", "i", "o", "n", " ">>
         \o (IF v.k = "wrapper" THEN <<"safe_eval.<locals>.", "make_", v.conv, ".<locals>.">>
             ELSE <<>>)
         \o <<"<", "l", "a", "m", "b", "d", "a", ">", " ", "a", "t", " ", "0x", ">">>

\* ------------------------------------------------------------------------
\* The application: SciConverterApp
\* ------------------------------------------------------------------------
VARIABLES
  expression,      \* self.expression, the text of the display
  history,         \* self.history, newest first
  history_listbox, \* the items of the list widget
  curselection,    \* and the indices of its selected items, from 0
  angle_mode_var,  \* self.angle_mode_var
  notice,          \* the message box the last handler showed
  keyboard,        \* the buttons and keys the user works with
  ALLOWED_NAMES,   \* the module-level allow-list
  call_expr,       \* a direct call of safe_eval: its expr,
  call_mode,       \*   its angle_mode,
  call_result,     \*   and what it returned or raised
  value_entry,     \* a converter tab: the value typed,
  from_unit,       \*   the unit converted from,
  to_unit,         \*   the unit converted to,
  result_label,    \*   the text of the result label,
  units_dict       \*   and the table of the tab

vars == <<expression, history, history_listbox, curselection, angle_mode_var, notice,
          keyboard,
          ALLOWED_NAMES,
          call_expr, call_mode, call_result,
          value_entry, from_unit, to_unit, result_label, units_dict>>

calculator ==
  <<expression, history, history_listbox, curselection, angle_mode_var, notice, keyboard>>
direct_call == <<call_expr, call_mode, call_result>>
converter == <<value_entry, from_unit, to_unit, result_label, units_dict>>

AngleModes == {"rad", "deg"}

\* the buttons of the grid that the model presses; Backspace is the label
\* of the erase button
Buttons == {"C", "Backspace", "=", "1", "÷", "%", "e"}

FunctionLabels ==
  {"sin", "cos", "tan", "log", "ln", "sqrt", "fact", "asin", "acos", "atan", "gamma"}

allowed_chars ==
  {"0", "1", "2", "3", "4", "5", "6", "7", "8", "9", "+", "-", "*", "/", "(", ")", ".", "%"}

\* the keys that the model types into the entry
Keys == {"0", "x", " "}

\* In one run the user works with the buttons and keys of one of these
\* groups, besides C, Backspace and '='.
Keyboards == {{"1", "÷", "0", "x", " "}, {"1", "%"}, {"e", "%", "0"}}

NoNotice == <<>>
showerror(title, message) == <<[title |-> title, message |-> message]>>
showinfo(title, message) == <<[title |-> title, message |-> message]>>

\* str.strip()
RECURSIVE lstrip(_)
lstrip(s) == IF s # <<>> /\ Head(s) \in Space THEN lstrip(Tail(s)) ELSE s

RECURSIVE rstrip(_)
rstrip(s) ==
  IF s # <<>> /\ s[Len(s)] \in Space THEN rstrip(SubSeq(s, 1, Len(s) - 1)) ELSE s

strip(s) == rstrip(lstrip(s))

\* the text a button of the grid inserts
insert_text(label) ==
  IF label \in FunctionLabels THEN Chars(label) \o <<"(">>
  ELSE IF label = "pi" THEN Chars(label)
  ELSE <<label>>

\* Shaped, were the result shown as it is
Unshaped(result) == result

\* if isinstance(result, float) and result.is_integer(): result = int(result)
Shaped(result) ==
  IF result.k = "float" /\ result.d = 1 THEN IntV(result.n) ELSE result

\* f"{expr} = {result}"
item(expr, result) == expr \o <<" ", "=", " ">> \o result

\* _add_history, were the item appended
_add_history_last(h, expr, result) == h \o <<item(expr, result)>>

\* self.history.insert(0, item)
_add_history(h, expr, result) == <<item(expr, result)>> \o h

\* the list widget is emptied, which ends the selection, and filled with
\* the history
_refresh_history(h) == h

\* ALLOWED_NAMES after a call of safe_eval
AfterCall(angle_mode, allowed) == Bind(angle_mode, allowed).ALLOWED_NAMES

NoCall == [stage |-> "none"]

\* the parts of the state that a specification leaves alone
IdleCalculator ==
  /\ keyboard = {}
  /\ expression = <<>>
  /\ history = <<>>
  /\ history_listbox = <<>>
  /\ curselection = <<>>
  /\ angle_mode_var = "rad"
  /\ notice = NoNotice

IdleCall ==
  /\ call_expr = <<>>
  /\ call_mode = "rad"
  /\ call_result = NoCall

IdleConverter ==
  /\ value_entry = <<>>
  /\ from_unit = ""
  /\ to_unit = ""
  /\ result_label = <<>>
  /\ units_dict = <<>>

\* __init__: an empty display, an empty history, radians
Init ==
  /\ expression = <<>>
  /\ history = <<>>
  /\ history_listbox = <<>>
  /\ curselection = <<>>
  /\ angle_mode_var = "rad"
  /\ notice = NoNotice
  /\ keyboard \in Keyboards
  /\ ALLOWED_NAMES = InitialNames
  /\ IdleCall
  /\ IdleConverter

\* '=' when safe_eval returned r: the result is shown and goes into the
\* history
Succeeded(expr, r) ==
  /\ Len(history) < MaxHist
  /\ expression' = Str(Shaped(r.v))
  /\ history' = _add_history(history, expr, expression')
  /\ history_listbox' = _refresh_history(history')
  /\ curselection' = <<>>
  /\ notice' = NoNotice

\* Failed, were the display cleared with the message box
FailedClearing(r) ==
  /\ notice' = IF r.exc = "ZeroDivisionError"
               THEN showerror("Error", "Division by zero is not allowed.")
               ELSE showerror("Error", "Invalid expression:\n" \o r.msg)
  /\ expression' = <<>>
  /\ UNCHANGED <<history, history_listbox, curselection>>

\* Failed, were there only the one except clause
FailedAlike(r) ==
  /\ notice' = showerror("Error", "Invalid expression:\n" \o r.msg)
  /\ UNCHANGED <<expression, history, history_listbox, curselection>>

\* '=' when safe_eval raised r: a message box
Failed(r) ==
  /\ notice' = IF r.exc = "ZeroDivisionError"
               THEN showerror("Error", "Division by zero is not allowed.")
               ELSE showerror("Error", "Invalid expression:\n" \o r.msg)
  /\ UNCHANGED <<expression, history, history_listbox, curselection>>

\* the '=' button: expr is the stripped text, r what safe_eval gives for it
Equals(expr, r) ==
  IF expr = <<>>
  THEN /\ notice' = NoNotice
       /\ UNCHANGED <<expression, history, history_listbox, curselection, ALLOWED_NAMES>>
  ELSE /\ ALLOWED_NAMES' = AfterCall(angle_mode_var, ALLOWED_NAMES)
       /\ IF r.ok THEN Succeeded(expr, r) ELSE Failed(r)

on_button(label) ==
  /\ CASE label = "C" ->
            /\ expression' = <<>>
            /\ notice' = NoNotice
            /\ UNCHANGED <<history, history_listbox, curselection, ALLOWED_NAMES>>
       [] label = "Backspace" ->
            /\ expression' = SubSeq(expression, 1, Len(expression) - 1)
            /\ notice' = NoNotice
            /\ UNCHANGED <<history, history_listbox, curselection, ALLOWED_NAMES>>
       [] label = "=" ->
            Equals(strip(expression),
                   safe_eval(strip(expression), angle_mode_var, ALLOWED_NAMES))
       [] OTHER ->
            /\ label \in keyboard
            /\ Len(expression) + Len(insert_text(label)) <= MaxLen
            /\ expression' = expression \o insert_text(label)
            /\ notice' = NoNotice
            /\ UNCHANGED <<history, history_listbox, curselection, ALLOWED_NAMES>>
  /\ UNCHANGED <<angle_mode_var, keyboard, direct_call, converter>>

\* A key typed into the entry.  A key outside allowed_chars is left to the
\* entry, which inserts it at its cursor, here the end of the text.
key_insert(ch) ==
  /\ ch \in keyboard
  /\ Len(expression) < MaxLen
  /\ expression' = IF ch \in allowed_chars THEN expression \o <<ch>>
                   ELSE Append(expression, ch)
  /\ notice' = NoNotice
  /\ UNCHANGED <<history, history_listbox, curselection, angle_mode_var, keyboard,
                 ALLOWED_NAMES, direct_call, converter>>

\* a radio button of the mode frame is chosen
_on_mode_change(mode) ==
  /\ angle_mode_var' = mode
  /\ notice' = NoNotice
  /\ UNCHANGED <<expression, history, history_listbox, curselection, keyboard,
                 ALLOWED_NAMES, direct_call, converter>>

\* Clear History, and the answer to its question
clear_history(yes) ==
  /\ IF yes
     THEN /\ history' = <<>>
          /\ history_listbox' = _refresh_history(history')
          /\ curselection' = <<>>
     ELSE UNCHANGED <<history, history_listbox, curselection>>
  /\ notice' = NoNotice
  /\ UNCHANGED <<expression, angle_mode_var, keyboard, ALLOWED_NAMES, direct_call,
                 converter>>

Next ==
  \/ \E label \in Buttons : on_button(label)
  \/ \E ch \in Keys : key_insert(ch)
  \/ \E mode \in AngleModes : _on_mode_change(mode)
  \/ \E yes \in BOOLEAN : clear_history(yes)

Spec == Init /\ [][Next]_vars

\* ------------------------------------------------------------------------
\* The history list: a click selects an item, a double click or Use
\* Selected recalls the selected one.  The user works with the button 1 and
\* the space key, and pastes text into the entry.
\* ------------------------------------------------------------------------
\* the longest text of the entry after a paste
MaxPaste == 4

\* the texts that the clipboard holds in turn
Clipboard == {<<"=", "=", "1">>, <<"<", "1">>}

InitRecall ==
  /\ expression = <<>>
  /\ history = <<>>
  /\ history_listbox = <<>>
  /\ curselection = <<>>
  /\ angle_mode_var = "rad"
  /\ notice = NoNotice
  /\ keyboard = {"1", " "}
  /\ ALLOWED_NAMES = InitialNames
  /\ IdleCall
  /\ IdleConverter

\* Paste in the entry: key_insert leaves the key to the entry, which
\* inserts the text of the clipboard at its cursor, here the end
paste(text) ==
  /\ Len(expression) + Len(text) <= MaxPaste
  /\ expression' = expression \o text
  /\ notice' = NoNotice
  /\ UNCHANGED <<history, history_listbox, curselection, angle_mode_var, keyboard,
                 ALLOWED_NAMES, direct_call, converter>>

\* a click on the item of index i of the list selects it
click(i) ==
  /\ i < Len(history_listbox)
  /\ curselection' = <<i>>
  /\ notice' = NoNotice
  /\ UNCHANGED <<expression, history, history_listbox, angle_mode_var, keyboard,
                 ALLOWED_NAMES, direct_call, converter>>

\* str.find(ch, i), from 1, and 0 when there is none
RECURSIVE find(_, _, _)
find(s, ch, i) ==
  IF i > Len(s) THEN 0 ELSE IF s[i] = ch THEN i ELSE find(s, ch, i + 1)

\* str.split(sep), sep of one character
RECURSIVE split(_, _), SplitAt(_, _, _)
split(s, sep) == SplitAt(s, sep, find(s, sep, 1))

SplitAt(s, sep, i) ==
  IF i = 0 THEN <<s>>
  ELSE <<SubSeq(s, 1, i - 1)>> \o split(SubSeq(s, i + 1, Len(s)), sep)

\* lines 361-363: the display after the item text is recalled
FromItem(text, shown) ==
  IF find(text, "=", 1) # 0 THEN strip(split(text, "=")[1]) ELSE shown

\* lines 357-363: the display after on_history_double_click
Recalled ==
  IF curselection = <<>> THEN expression
  ELSE FromItem(history_listbox[curselection[1] + 1], expression)

\* the handler of a double click on the list
on_history_double_click ==
  /\ expression' = Recalled
  /\ notice' = NoNotice
  /\ UNCHANGED <<history, history_listbox, curselection, angle_mode_var, keyboard,
                 ALLOWED_NAMES, direct_call, converter>>

\* the Use Selected button
use_selected_history ==
  /\ expression' = Recalled
  /\ notice' = IF curselection = <<>>
               THEN showinfo("Use Selected", "No history item selected")
               ELSE NoNotice
  /\ UNCHANGED <<history, history_listbox, curselection, angle_mode_var, keyboard,
                 ALLOWED_NAMES, direct_call, converter>>

NextRecall ==
  \/ Next
  \/ \E text \in Clipboard : paste(text)
  \/ \E i \in 0..(MaxHist - 1) : click(i)
  \/ on_history_double_click
  \/ use_selected_history

SpecRecall == InitRecall /\ [][NextRecall]_vars

\* ------------------------------------------------------------------------
\* safe_eval called directly: the argument is put together from pieces of
\* text, and the function is called on it in either mode, again and again
\* ------------------------------------------------------------------------
Pieces ==
  { <<"5">>, <<"0">>, <<"2">>, <<".">>, <<"%">>, <<"(">>, <<")">>, <<"-">>,
    <<"a", "b", "s", "(">>, <<"r", "o", "u", "n", "d", "(">>,
    <<"l", "a", "m", "b", "d", "a", ":">>, <<"f", "o", "o">>,
    <<"s", "i", "n", "(">>, <<"l", "n", "(">> }

\* the text of the argument
Text == Flatten(call_expr)

InitEval ==
  /\ IdleCalculator
  /\ ALLOWED_NAMES = InitialNames
  /\ call_expr = <<>>
  /\ call_mode \in AngleModes
  /\ call_result = NoCall
  /\ IdleConverter

\* one more piece of the argument
Extend(piece) ==
  /\ Len(call_expr) < MaxPieces
  /\ call_expr' = Append(call_expr, piece)
  /\ call_result' = NoCall
  /\ UNCHANGED <<call_mode, ALLOWED_NAMES, calculator, converter>>

\* a new argument
Restart ==
  /\ call_expr' = <<>>
  /\ call_result' = NoCall
  /\ UNCHANGED <<call_mode, ALLOWED_NAMES, calculator, converter>>

\* the other angle mode
Switch(mode) ==
  /\ mode # call_mode
  /\ call_mode' = mode
  /\ call_result' = NoCall
  /\ UNCHANGED <<call_expr, ALLOWED_NAMES, calculator, converter>>

\* safe_eval(expr, angle_mode)
CallSafeEval ==
  /\ call_result' = safe_eval(Text, call_mode, ALLOWED_NAMES)
  /\ ALLOWED_NAMES' = AfterCall(call_mode, ALLOWED_NAMES)
  /\ UNCHANGED <<call_expr, call_mode, calculator, converter>>

NextEval ==
  \/ \E piece \in Pieces : Extend(piece)
  \/ Restart
  \/ \E mode \in AngleModes : Switch(mode)
  \/ CallSafeEval

SpecEval == InitEval /\ [][NextEval]_vars

\* ------------------------------------------------------------------------
\* The converter tabs: the floats of convert
\* ------------------------------------------------------------------------
\* A float of the converter is kept exactly: s * N / (dv[1] * dv[2] ...)
\* * 10^x, with ds the decimal digits of the natural number N.  The rounding
\* of a float to 53 bits is left out; its range is not.
Finite(s, ds, dv, x) == [k |-> "finite", s |-> s, ds |-> ds, dv |-> dv, x |-> x]
Infinite(s) == [k |-> "inf", s |-> s]
NotANumber == [k |-> "nan"]

\* a factor of a table of units: n / d * 10^x
Factor(n, d, x) == [n |-> n, d |-> d, x |-> x]

\* the digits of N * k + carry
RECURSIVE Times(_, _, _)
Times(ds, k, carry) ==
  IF ds = <<>> THEN (IF carry = 0 THEN <<>> ELSE DigitsOf(carry))
  ELSE Times(SubSeq(ds, 1, Len(ds) - 1), k, (ds[Len(ds)] * k + carry) \div 10)
       \o <<(ds[Len(ds)] * k + carry) % 10>>

\* long division of the digits ds by c from digit i on: the digits q of the
\* quotient and the remainder r
RECURSIVE DivideBy(_, _, _, _, _)
DivideBy(ds, c, i, r, q) ==
  IF i > Len(ds) THEN [q |-> q, r |-> r]
  ELSE DivideBy(ds, c, i + 1, (r * 10 + ds[i]) % c, Append(q, (r * 10 + ds[i]) \div c))

\* ds divided by each divisor of dv in turn; exact says that no division
\* left a remainder
RECURSIVE Quotient(_, _, _)
Quotient(ds, dv, exact) ==
  IF dv = <<>> THEN [q |-> ds, exact |-> exact]
  ELSE Quotient(DivideBy(ds, Head(dv), 1, 0, <<>>).q, Tail(dv),
                exact /\ DivideBy(ds, Head(dv), 1, 0, <<>>).r = 0)

RECURSIVE StripLeading(_)
StripLeading(ds) == IF ds # <<>> /\ Head(ds) = 0 THEN StripLeading(Tail(ds)) ELSE ds

RECURSIVE DigitCount(_)
DigitCount(dv) == IF dv = <<>> THEN 0 ELSE Len(DigitsOf(Head(dv))) + DigitCount(Tail(dv))

IsNought(v) == v.k = "finite" /\ StripLeading(v.ds) = <<>>

\* The digits of a finite v # 0, at least nine of them, with the position
\* of the decimal point: |v| = 0.ds * 10^pt, exactly or (exact = FALSE) but
\* for a remainder below the last digit.
Expand(q, z, x) ==
  [ds |-> StripLeading(q.q), pt |-> Len(StripLeading(q.q)) + x - z, exact |-> q.exact]

Scale(v, z) == Expand(Quotient(v.ds \o [i \in 1..z |-> 0], v.dv, TRUE), z, v.x)

Leading(v) == Scale(v, 9 + DigitCount(v.dv))

\* the largest float is 1.7976931348623157e308
Overflows(m) ==
  m.pt > 309 \/ (m.pt = 309 /\ ValueOf(SubSeq(m.ds, 1, 9)) >= 179769314)

\* half of the smallest float is 2.47e-324; the loss of digits of the
\* floats below 2.2250738585072014e-308 is left out
Vanishes(m) ==
  m.pt < -323 \/ (m.pt = -323 /\ ValueOf(SubSeq(m.ds, 1, 3)) <= 247)

\* a float operation's result, brought into the range of the floats
InRange(v, m) ==
  IF Overflows(m) THEN Infinite(v.s)
  ELSE IF Vanishes(m) THEN Finite(v.s, <<0>>, <<>>, 0)
  ELSE v

Rounded(v) == IF IsNought(v) THEN Finite(v.s, <<0>>, <<>>, 0) ELSE InRange(v, Leading(v))

Divisor(d) == IF d = 1 THEN <<>> ELSE <<d>>

\* a * f and a / f of floats, f a factor of a table
Mul(a, f) ==
  IF a.k # "finite" THEN a
  ELSE Rounded(Finite(a.s, Times(a.ds, f.n, 0), a.dv \o Divisor(f.d), a.x + f.x))

Div(a, f) ==
  IF a.k # "finite" THEN a
  ELSE Rounded(Finite(a.s, Times(a.ds, f.d, 0), a.dv \o Divisor(f.n), a.x - f.x))

\* float(text) when text is no number
NoFloat == Raise("ValueError", "could not convert string to float")

Numbers(digits) == [i \in 1..Len(digits) |-> DigitVal(digits[i])]

\* the value of the exponent digits b[k ..]
ExponentOf(b, k) == IF Len(b) - k >= 5 THEN 99999 ELSE DigitsVal(b, k, Len(b) + 1)

\* the exponent from b[k] on, after the 'e' and its sign esign
FloatPower(sign, b, digits, frac, k, esign) ==
  IF k > Len(b) \/ RunEnd(b, k, Digits) # Len(b) + 1 THEN NoFloat
  ELSE Ok(Rounded(Finite(sign, Numbers(digits), <<>>, esign * ExponentOf(b, k) - frac)))

\* what follows the digits, frac of them after the point, at b[j]
FloatExponent(sign, b, digits, frac, j) ==
  IF digits = <<>> THEN NoFloat
  ELSE IF j = Len(b) + 1 THEN Ok(Rounded(Finite(sign, Numbers(digits), <<>>, -frac)))
  ELSE IF At(b, j) \in {"e", "E"}
  THEN FloatPower(sign, b, digits, frac,
                  IF At(b, j + 1) \in {"+", "-"} THEN j + 2 ELSE j + 1,
                  IF At(b, j + 1) = "-" THEN -1 ELSE 1)
  ELSE NoFloat

\* the digits before b[i] and those of the fraction that ends before b[j]
FloatFraction(sign, b, i, j) ==
  IF At(b, i) = "."
  THEN FloatExponent(sign, b, SubSeq(b, 1, i - 1) \o SubSeq(b, i + 1, j - 1), j - i - 1, j)
  ELSE FloatExponent(sign, b, SubSeq(b, 1, i - 1), 0, i)

FloatBody(sign, b) ==
  IF b \in {<<"i", "n", "f">>, <<"i", "n", "f", "i", "n", "i", "t", "y">>}
  THEN Ok(Infinite(sign))
  ELSE IF b = <<"n", "a", "n">> THEN Ok(NotANumber)
  ELSE FloatFraction(sign, b, RunEnd(b, 1, Digits),
                     RunEnd(b, RunEnd(b, 1, Digits) + 1, Digits))

FloatSigned(t) ==
  IF At(t, 1) = "-" THEN FloatBody(-1, Tail(t))
  ELSE IF At(t, 1) = "+" THEN FloatBody(1, Tail(t))
  ELSE FloatBody(1, t)

\* float(text), of lower-case text without underscores
float(text) == FloatSigned(strip(text))

\* the precision of the format of the result
Precision == 6

\* the first Precision digits of m, rounded half to even
RoundUp(m, head) ==
  \/ m.ds[Precision + 1] > 5
  \/ /\ m.ds[Precision + 1] = 5
     /\ \/ ~m.exact
        \/ head % 2 = 1
        \/ \E i \in (Precision + 2)..Len(m.ds) : m.ds[i] # 0

Carried(n, pt) ==
  IF n = Pow(10, Precision)
  THEN [ds |-> <<1>>, pt |-> pt + 1]
  ELSE [ds |-> StripZeros(DigitsOf(n)), pt |-> pt]

RoundTo(m, head) == Carried(IF RoundUp(m, head) THEN head + 1 ELSE head, m.pt)

\* the presentation type g: ds are the digits, 10^x the weight of the first
Scientific(ds, x) ==
  <<DigitChar(ds[1])>> \o (IF Len(ds) > 1 THEN <<".">> \o ToChars(Tail(ds)) ELSE <<>>)
  \o <<"e", IF x < 0 THEN "-" ELSE "+">>
  \o (IF Abs(x) < 10 THEN <<"0">> ELSE <<>>) \o ToChars(DigitsOf(Abs(x)))

FixedPoint(ds, x) ==
  IF x < 0 THEN <<"0", ".">> \o Zeros(-x - 1) \o ToChars(ds)
  ELSE IF Len(ds) <= x + 1 THEN ToChars(ds) \o Zeros(x + 1 - Len(ds))
  ELSE ToChars(SubSeq(ds, 1, x + 1)) \o <<".">> \o ToChars(SubSeq(ds, x + 2, Len(ds)))

General(r) ==
  IF r.pt - 1 < -4 \/ r.pt - 1 >= Precision
  THEN Scientific(r.ds, r.pt - 1)
  ELSE FixedPoint(r.ds, r.pt - 1)

Digits6(m) == General(RoundTo(m, ValueOf(SubSeq(m.ds, 1, Precision))))

\* f'{result:.6g}'
format(result) ==
  CASE result.k = "nan" -> <<"n", "a", "n">>
    [] result.k = "inf" -> Sign(result.s) \o <<"i", "n", "f">>
    [] IsNought(result) -> Sign(result.s) \o <<"0">>
    [] OTHER -> Sign(result.s) \o Digits6(Leading(result))

\* a table of units: the pairs of the dict, in its order
weight_units ==
  << <<"Kilogram (kg)", Factor(1, 1, 0)>>,
     <<"Gram (g)", Factor(1, 1, -3)>>,
     <<"Pound (lb)", Factor(45359237, 1, -8)>>,
     <<"Ounce (oz)", Factor(45359237, 16, -8)>> >>

length_units ==
  << <<"Meter (m)", Factor(1, 1, 0)>>,
     <<"Centimeter (cm)", Factor(1, 1, -2)>>,
     <<"Millimeter (mm)", Factor(1, 1, -3)>>,
     <<"Kilometer (km)", Factor(1, 1, 3)>>,
     <<"Inch (in)", Factor(254, 1, -4)>>,
     <<"Foot (ft)", Factor(3048, 1, -4)>> >>

\* list(units.keys()) and units[key]
keys(units) == [i \in 1..Len(units) |-> units[i][1]]
Get(units, key) == units[CHOOSE i \in 1..Len(units) : units[i][1] = key][2]

\* ------------------------------------------------------------------------
\* A converter tab: _build_converter_tab is called for each table; the
\* model follows the widgets of one tab
\* ------------------------------------------------------------------------
\* what is typed into the value entry, piece after piece
MaxValue == 2

\* In one run the user types the pieces of one of these groups.
ValueKeys ==
  { {<<"1">>, <<".">>}, {<<"-">>, <<"5">>, <<"e", "3", "0", "5">>} }

Label(text) == <<"R", "e", "s", "u", "l", "t", ":", " ">> \o text

InitConv ==
  /\ expression = <<>>
  /\ history = <<>>
  /\ history_listbox = <<>>
  /\ curselection = <<>>
  /\ angle_mode_var = "rad"
  /\ notice = NoNotice
  /\ keyboard \in ValueKeys
  /\ ALLOWED_NAMES = InitialNames
  /\ IdleCall
  /\ units_dict \in {weight_units, length_units}
  /\ value_entry = <<>>
  /\ from_unit = keys(units_dict)[1]
  /\ to_unit = keys(units_dict)[IF Len(units_dict) > 1 THEN 2 ELSE 1]
  /\ result_label = Label(<<>>)

untouched == <<expression, history, history_listbox, curselection, angle_mode_var, keyboard,
               ALLOWED_NAMES, direct_call, units_dict>>

\* a piece of a value is typed into the entry
type_value(piece) ==
  /\ piece \in keyboard
  /\ Len(value_entry) < MaxValue
  /\ value_entry' = Append(value_entry, piece)
  /\ notice' = NoNotice
  /\ UNCHANGED <<from_unit, to_unit, result_label, untouched>>

\* the entry is emptied
delete_value ==
  /\ value_entry' = <<>>
  /\ notice' = NoNotice
  /\ UNCHANGED <<from_unit, to_unit, result_label, untouched>>

\* a unit is chosen in the From box
choose_from(unit) ==
  /\ from_unit' = unit
  /\ notice' = NoNotice
  /\ UNCHANGED <<value_entry, to_unit, result_label, untouched>>

\* a unit is chosen in the To box
choose_to(unit) ==
  /\ to_unit' = unit
  /\ notice' = NoNotice
  /\ UNCHANGED <<value_entry, from_unit, result_label, untouched>>

\* Result, were the base multiplied by the factor of the To unit
ResultTimes(val, from_factor, to_factor) == Mul(Mul(val, from_factor), to_factor)

\* base = val * units_dict[from_unit.get()]; result = base / units_dict[to_unit.get()]
Result(val, from_factor, to_factor) == Div(Mul(val, from_factor), to_factor)

\* convert, after val = float(value_entry.get()) returned or raised
Converted(val) ==
  IF val.ok
  THEN /\ result_label' =
            Label(format(Result(val.v, Get(units_dict, from_unit), Get(units_dict, to_unit))))
       /\ notice' = NoNotice
  ELSE /\ notice' = showerror("Error", "Invalid input")
       /\ UNCHANGED result_label

\* the Convert button
convert ==
  /\ Converted(float(Flatten(value_entry)))
  /\ UNCHANGED <<value_entry, from_unit, to_unit, untouched>>

\* the Swap button
_swap_units ==
  /\ IF from_unit = "" \/ to_unit = ""
     THEN UNCHANGED <<from_unit, to_unit>>
     ELSE /\ from_unit' = to_unit
          /\ to_unit' = from_unit
  /\ notice' = NoNotice
  /\ UNCHANGED <<value_entry, result_label, untouched>>

NextConv ==
  \/ \E piece \in UNION ValueKeys : type_value(piece)
  \/ delete_value
  \/ \E unit \in {keys(units_dict)[i] : i \in 1..Len(units_dict)} : choose_from(unit)
  \/ \E unit \in {keys(units_dict)[i] : i \in 1..Len(units_dict)} : choose_to(unit)
  \/ convert
  \/ _swap_units

SpecConv == InitConv /\ [][NextConv]_vars

\* ------------------------------------------------------------------------
\* Claims about safe_eval
\* ------------------------------------------------------------------------
\* the identifiers that the tree e refers to, those of lambda bodies included
RECURSIVE Identifiers(_)
Identifiers(e) ==
  CASE e.k = "name" -> {e.id}
    [] e.k = "lambda" -> Identifiers(e.body)
    [] e.k = "un" -> Identifiers(e.a)
    [] e.k = "attr" -> Identifiers(e.a)
    [] e.k \in {"bin", "cmp"} -> Identifiers(e.a) \cup Identifiers(e.b)
    [] e.k = "call" ->
         Identifiers(e.f) \cup (IF e.args = <<>> THEN {} ELSE Identifiers(e.args[1]))
    [] OTHER -> {}

\* C1: a call of safe_eval on a well-formed expression that refers to an
\* identifier which is neither a key of the namespace of the call nor abs
\* or round fails, before anything is evaluated, with the NameError
\* "Use of '<name>' not allowed" that names such an identifier.
C1_UnknownIdentifierRejected ==
  call_result # NoCall =>
    LET code == compile(Normalize(Text))
        known == DOMAIN local_names(call_mode, InitialNames) \cup safe_builtin_names
        unknown == Identifiers(code.e) \ known
    IN (code.ok /\ unknown # {}) =>
         /\ ~call_result.ok
         /\ call_result.stage = "validate"
         /\ call_result.exc = "NameError"
         /\ \E id \in unknown : call_result.msg = "Use of '" \o id \o "' not allowed"

\* the number that the argument of a call is, if it is a literal or a
\* negated literal
IsLiteral(e) ==
  \/ e.k = "const" /\ IsRat(e.v)
  \/ e.k = "un" /\ e.op = "-" /\ e.a.k = "const" /\ IsRat(e.a.v)

LiteralValue(e) == IF e.k = "const" THEN e.v ELSE UnOp("-", e.a.v).v

\* abs(x) and round(x) of Python for a number x
BuiltinValue(id, x) ==
  IF id = "abs" THEN [x EXCEPT !.n = Abs(x.n)]
  ELSE IF x.k = "int" THEN x
  ELSE LET f == Floor(x.n, x.d)
           twice == 2 * (x.n - f * x.d)
       IN IntV(IF twice > x.d \/ (twice = x.d /\ f % 2 = 1) THEN f + 1 ELSE f)

\* C2: safe_eval of 'abs(x)' and of 'round(x)', x a number, returns the
\* absolute value and the rounded value of x, in both angle modes.
C2_SafeBuiltinsEvaluate ==
  call_result # NoCall =>
    LET e == compile(Normalize(Text)).e
    IN (/\ e.k = "call"
        /\ e.f.k = "name"
        /\ e.f.id \in safe_builtin_names
        /\ Len(e.args) = 1
        /\ IsLiteral(e.args[1])) =>
         /\ call_result.ok
         /\ call_result.v = BuiltinValue(e.f.id, LiteralValue(e.args[1]))

\* the text s is one numeric literal of Python
NumericLiteral(s) ==
  LET tk == Tokenize(s)
  IN tk.ok /\ Len(tk.toks) = 1 /\ tk.toks[1].t = "const" /\ IsRat(tk.toks[1].v)

Literal(s) == Tokenize(s).toks[1].v

\* (a / 100) * b and a / 100 in the arithmetic of Python
PercentOf(a, b) == BinOp("*", BinOp("/", a, IntV(100)).v, b).v
Percent(a) == BinOp("/", a, IntV(100)).v

\* C5: for numeric literals a and b, safe_eval of 'a%b' returns
\* (a / 100) * b and safe_eval of 'a%' returns a / 100; a text without '%'
\* reaches compile() with nothing but the display symbols replaced.
C5_PercentRewriting ==
  call_result # NoCall =>
    LET n == Len(Text)
        before(i) == SubSeq(Text, 1, i - 1)
        after(i) == SubSeq(Text, i + 1, n)
    IN /\ \A i \in 1..n :
            (Text[i] = "%" /\ NumericLiteral(before(i)) /\ NumericLiteral(after(i))) =>
              /\ call_result.ok
              /\ call_result.v = PercentOf(Literal(before(i)), Literal(after(i)))
       /\ (n > 0 /\ Text[n] = "%" /\ NumericLiteral(before(n))) =>
            /\ call_result.ok
            /\ call_result.v = Percent(Literal(before(n)))
       /\ (\A i \in 1..n : Text[i] # "%") => Normalize(Text) = ReplaceSymbols(Text)

TrigNames == {"sin", "cos", "tan", "asin", "acos", "atan"}

\* C6: the two angle modes bind every name but sin, cos, tan, asin, acos
\* and atan to the same thing, and a call of safe_eval on an expression
\* that refers to none of these six gives the same outcome in both modes.
C6_ModeAffectsOnlyTrig ==
  LET rad == local_names("rad", ALLOWED_NAMES)
      deg == local_names("deg", ALLOWED_NAMES)
  IN /\ DOMAIN rad = DOMAIN deg
     /\ \A name \in DOMAIN rad \ TrigNames : rad[name] = deg[name]
     /\ call_result # NoCall =>
          (Identifiers(compile(Normalize(Text)).e) \cap TrigNames = {} =>
             \A mode \in AngleModes : safe_eval(Text, mode, ALLOWED_NAMES) = call_result)

\* a call in degrees mode that returned the value of an expression with ln
C6_Witness ==
  /\ call_result # NoCall
  /\ call_result.ok
  /\ call_mode = "deg"
  /\ Identifiers(compile(Normalize(Text)).e) = {"ln"}

Evaluated == safe_eval(strip(expression), angle_mode_var, ALLOWED_NAMES)

\* a press of '=' with text in the display
EqualsPressed == on_button("=") /\ strip(expression) # <<>>

\* C3: a press of '=' whose evaluation fails leaves the display, the
\* history and the list of the history as they were and shows one message
\* box, and so does a press of '=' on a blank display, without the message
\* box: no press of '=' replaces the display but one whose evaluation
\* succeeded.
C3_FailedEqualsChangesNothing ==
  [][LET blank == strip(expression) = <<>>
     IN ((blank \/ ~Evaluated.ok) /\ on_button("=")) =>
          /\ expression' = expression
          /\ history' = history
          /\ history_listbox' = history_listbox
          /\ Len(notice') = IF blank THEN 0 ELSE 1]_vars

\* a message box after a failed '=', with an entry in the history
C3_Witness ==
  /\ notice # NoNotice
  /\ history # <<>>
  /\ expression # <<>>

\* C4: the message box of a failed '=' is 'Division by zero is not
\* allowed.' exactly when safe_eval raised ZeroDivisionError, and otherwise
\* 'Invalid expression:' with the text of the exception; a quotient, floor
\* quotient or remainder of a number by a literal zero raises
\* ZeroDivisionError.
C4_DivisionByZeroNotice ==
  LET e == compile(Normalize(strip(expression))).e
  IN /\ (/\ e.k = "bin"
         /\ e.op \in {"/", "//", "%"}
         /\ IsLiteral(e.a) \/ e.a = Name("e")
         /\ IsLiteral(e.b)
         /\ LiteralValue(e.b).n = 0) =>
          (~Evaluated.ok /\ Evaluated.exc = "ZeroDivisionError")
     /\ notice # NoNotice =>
          /\ ~Evaluated.ok
          /\ notice = IF Evaluated.exc = "ZeroDivisionError"
                      THEN <<[title |-> "Error",
                              message |-> "Division by zero is not allowed."]>>
                      ELSE <<[title |-> "Error",
                              message |-> "Invalid expression:\n" \o Evaluated.msg]>>
          /\ (notice[1].message = "Division by zero is not allowed.")
               <=> (Evaluated.exc = "ZeroDivisionError")

\* the message box of a remainder by zero
C4_Witness ==
  /\ notice # NoNotice
  /\ notice[1].message = "Division by zero is not allowed."
  /\ expression = <<"e", "%", "0">>
  /\ Evaluated.exc = "ZeroDivisionError"

\* C7: a successful '=' shows a float without fractional part as the
\* integer and any other result as str() gives it; and when the result is
\* integral, '=' on the text shown succeeds with the same value and the
\* same text.
C7_IntegralDisplay ==
  [][(strip(expression) # <<>> /\ Evaluated.ok /\ on_button("=")) =>
       LET v == Evaluated.v
           integral == v.k = "int" \/ (v.k = "float" /\ v.d = 1)
           again == safe_eval(strip(expression'), angle_mode_var', ALLOWED_NAMES')
       IN /\ expression' = IF v.k = "float" /\ v.d = 1 THEN Str(IntV(v.n)) ELSE Str(v)
          /\ integral =>
               /\ again.ok
               /\ again.v = IntV(v.n)
               /\ Str(again.v) = expression']_vars

\* '1÷1' was evaluated, a float, and the display shows 1
C7_Witness ==
  /\ history # <<>>
  /\ Head(history) = <<"1", "÷", "1", " ", "=", " ", "1">>
  /\ expression = <<"1">>

\* C10: a successful '=' puts the one entry 'expr = result' in front of the
\* history; nothing else changes the history but a confirmed Clear History,
\* which empties it; and the list shows the history.
C10_HistoryNewestFirst ==
  [][/\ (history' # history /\ ~clear_history(TRUE)) =>
          (EqualsPressed /\ Evaluated.ok)
     /\ (strip(expression) # <<>> /\ Evaluated.ok /\ on_button("=")) =>
          history' = <<strip(expression) \o <<" ", "=", " ">> \o expression'>> \o history
     /\ clear_history(TRUE) => history' = <<>>
     /\ history_listbox' = history']_vars

\* two entries, the newer one first
C10_Witness ==
  /\ Len(history) = 2
  /\ history[1] = <<"1", "÷", "1", " ", "=", " ", "1">>
  /\ history[2] = <<"0", " ", "=", " ", "0">>

\* the item of the list that is selected
Selected == history_listbox[curselection[1] + 1]

\* '=' on the display expr puts the item text into the history
Creates(expr, text) ==
  /\ expr = strip(expr)
  /\ expr # <<>>
  /\ \E mode \in AngleModes :
       LET r == safe_eval(expr, mode, ALLOWED_NAMES)
       IN r.ok /\ item(expr, Str(Shaped(r.v))) = text

\* C11: recalling a history entry, with a double click or with Use
\* Selected, sets the display to exactly the expression text that was
\* evaluated to create the entry and leaves the history unchanged; with no
\* entry selected the display is left unchanged.
C11_RecallRestoresExpression ==
  [][(/\ UNCHANGED <<history_listbox, curselection, angle_mode_var>>
      /\ on_history_double_click \/ use_selected_history)
     => /\ history' = history
        /\ IF curselection = <<>> THEN expression' = expression
           ELSE Creates(expression', Selected)]_vars

\* ------------------------------------------------------------------------
\* Claims about the converter
\* ------------------------------------------------------------------------
\* a finite float written with digits and an exponent: N * 10^x, N without
\* trailing zeros
Plain(v) ==
  [n |-> v.s * ValueOf(StripZeros(v.ds)),
   x |-> v.x + Len(v.ds) - Len(StripZeros(v.ds))]

\* |a - b| <= 11/1000000 * |b| for integers a and b
Within(a, b) ==
  Abs(a - b) <= 11 * (Abs(b) \div 1000000) + (11 * (Abs(b) % 1000000)) \div 1000000

\* the floats a and b are the same to within 11 parts in a million, the
\* rounding of two displays of six digits
Close(a, b) ==
  IF a.k # "finite" \/ b.k # "finite" THEN a = b /\ a.k # "nan"
  ELSE IF IsNought(a) \/ IsNought(b) THEN IsNought(a) /\ IsNought(b)
  ELSE IF Plain(a).x >= Plain(b).x
  THEN /\ Len(DigitsOf(Abs(Plain(a).n))) + Plain(a).x - Plain(b).x <= 9
       /\ Within(Plain(a).n * Pow(10, Plain(a).x - Plain(b).x), Plain(b).n)
  ELSE /\ Len(DigitsOf(Abs(Plain(b).n))) + Plain(b).x - Plain(a).x <= 9
       /\ Within(Plain(a).n, Plain(b).n * Pow(10, Plain(b).x - Plain(a).x))

\* the text of the result of converting the value of text from u1 to u2
Conversion(text, u1, u2) ==
  format(Div(Mul(float(text).v, Get(units_dict, u1)), Get(units_dict, u2)))

\* the value typed is in the range of the floats and so are its product
\* with the factor of the From unit and the result
Representable(v) ==
  LET base == Mul(v, Get(units_dict, from_unit))
      there == Div(base, Get(units_dict, to_unit))
  IN /\ v.k = "finite" /\ base.k = "finite" /\ there.k = "finite"
     /\ IsNought(there) => IsNought(v)

\* Convert shows value * factor[u1] / factor[u2], and converting what it
\* shows from u2 back to u1 gives the value
RoundTrip ==
  LET text == Flatten(value_entry)
      there == Conversion(text, from_unit, to_unit)
      back == Conversion(there, to_unit, from_unit)
  IN /\ result_label' = Label(there)
     /\ Close(float(back).v, float(text).v)

\* Swap exchanges the units and leaves the value
Swapped ==
  /\ from_unit' = to_unit
  /\ to_unit' = from_unit
  /\ value_entry' = value_entry

====
